---------------------------- MODULE Spec2Model ----------------------------
(***************************************************************************)
(* PLONK prover core (pairing/plonk/src/prover.rs) and the generic gate    *)
(* (circuits/plonk/src/gates/generic.rs) as a state machine.               *)
(*                                                                         *)
(* The scalar field E::Fr is instantiated by the prime field F_P, small    *)
(* enough to enumerate and large enough to hold a multiplicative subgroup  *)
(* H of size 2 or 4 together with two disjoint cosets k1*H, k2*H.          *)
(* Polynomials are coefficient sequences, lowest degree first, with no     *)
(* trailing zero (DensePolynomial's normal form); Rust's 0-based index i   *)
(* is position i+1 of a sequence.                                          *)
(***************************************************************************)
EXTENDS Integers, Sequences, FiniteSets, TLC

\* The modulus of the scalar field E::Fr.
P == 13

\* ------------------------------------------------------------------ field
F == 0..(P - 1)

FAdd(x, y) == (x + y) % P
FSub(x, y) == (x + P - y) % P
FMul(x, y) == (x * y) % P
FNeg(x) == (P - x) % P

\* Field::pow: x^e by repeated squaring.
RECURSIVE FPow(_, _)
FPow(x, e) ==
    IF e = 0 THEN 1
    ELSE LET h == FPow(x, e \div 2)
         IN  IF e % 2 = 0 THEN FMul(h, h) ELSE FMul(FMul(h, h), x)

\* Field::inverse (partial: zero has none; callers test for zero).
FInv(x) == FPow(x, P - 2)

\* algebra::fields::batch_inversion: every non-zero entry is replaced by its
\* inverse, zero entries are left as they are.
batch_inversion(v) == [i \in 1..Len(v) |-> IF v[i] = 0 THEN 0 ELSE FInv(v[i])]

\* ------------------------------------------------------------ polynomials
\* DensePolynomial::truncate_leading_zeros
RECURSIVE Norm(_)
Norm(p) ==
    IF Len(p) = 0 THEN <<>>
    ELSE IF p[Len(p)] = 0 THEN Norm(SubSeq(p, 1, Len(p) - 1))
    ELSE p

Coef(p, i) == IF i <= Len(p) THEN p[i] ELSE 0
Max(x, y) == IF x >= y THEN x ELSE y
Min(x, y) == IF x <= y THEN x ELSE y

from_coefficients_slice(s) == Norm(s)

PAdd(p, q) == Norm([i \in 1..Max(Len(p), Len(q)) |-> FAdd(Coef(p, i), Coef(q, i))])
PSub(p, q) == Norm([i \in 1..Max(Len(p), Len(q)) |-> FSub(Coef(p, i), Coef(q, i))])
PScale(p, s) == Norm([i \in 1..Len(p) |-> FMul(p[i], s)])

RECURSIVE ConvSum(_, _, _, _, _)
ConvSum(p, q, k, i, hi) ==
    IF i > hi THEN 0 ELSE p[i] * q[k - i + 1] + ConvSum(p, q, k, i + 1, hi)

PMul(p, q) ==
    IF Len(p) = 0 \/ Len(q) = 0 THEN <<>>
    ELSE Norm([k \in 1..(Len(p) + Len(q) - 1) |->
                 ConvSum(p, q, k, Max(1, k - Len(q) + 1), Min(k, Len(p))) % P])

\* DensePolynomial::evaluate (Horner)
RECURSIVE Horner(_, _, _)
Horner(p, x, i) ==
    IF i = Len(p) THEN p[i] ELSE FAdd(FMul(Horner(p, x, i + 1), x), p[i])
PEval(p, x) == IF Len(p) = 0 THEN 0 ELSE Horner(p, x, 1)

\* EvaluationDomain: size n, generator omega of the subgroup H of order n.
DomainElem(dom, j) == FPow(dom.group_gen, j)

RECURSIVE IfftSum(_, _, _, _)
IfftSum(ev, dom, i, j) ==
    IF j > Len(ev) \/ j > dom.size THEN 0
    ELSE ev[j] * FPow(FInv(dom.group_gen), i * (j - 1)) + IfftSum(ev, dom, i, j + 1)

\* Evaluations::from_vec_and_domain(ev, dom).interpolate(): the inverse DFT
\* over H of ev, padded with zeros to the size of the domain.
Interpolate(ev, dom) ==
    Norm([i \in 1..dom.size |-> FMul(FInv(dom.size % P), IfftSum(ev, dom, i - 1, 1) % P)])

\* EvaluationDomain::vanishing_polynomial: Z_H(X) = X^n - 1
vanishing_polynomial(dom) == [i \in 1..(dom.size + 1) |->
    IF i = 1 THEN P - 1 ELSE IF i = dom.size + 1 THEN 1 ELSE 0]

\* DensePolynomial::divide_by_vanishing_poly: long division by X^n - 1.
\* Some((0, p)) when deg p < n; the quotient has deg p - n + 1 coefficients.
RECURSIVE QuotCoef(_, _, _)
QuotCoef(p, n, i) == IF i > Len(p) - n THEN 0 ELSE FAdd(p[i + n], QuotCoef(p, n, i + n))

divide_by_vanishing_poly(p, dom) ==
    LET n == dom.size IN
    IF Len(p) <= n THEN [some |-> TRUE, q |-> <<>>, r |-> p]
    ELSE [some |-> TRUE,
          q |-> Norm([i \in 1..(Len(p) - n) |-> QuotCoef(p, n, i)]),
          r |-> Norm([i \in 1..n |-> FAdd(p[i], QuotCoef(p, n, i))])]


\* ------------------------------------------------------------ generic gate
\* GateType (gate.rs); only Generic rows carry the five selectors.
GateType == {"Zero", "Generic", "Poseidon"}

\* CircuitGate::create_generic
create_generic(l, r, o, q_l, q_r, q_o, q_m, q_c) ==
    [typ |-> "Generic", l |-> l, r |-> r, o |-> o, c |-> <<q_l, q_r, q_o, q_m, q_c>>]

\* Mutant: qm reads the output selector's slot.
qmWrongSlot(gate) == IF gate.typ = "Generic" THEN gate.c[3] ELSE 0
\* Selector accessors: c[i] for a Generic gate, zero otherwise.
ql(gate) == IF gate.typ = "Generic" THEN gate.c[1] ELSE 0
qr(gate) == IF gate.typ = "Generic" THEN gate.c[2] ELSE 0
qo(gate) == IF gate.typ = "Generic" THEN gate.c[3] ELSE 0
qm(gate) == IF gate.typ = "Generic" THEN gate.c[4] ELSE 0
qc(gate) == IF gate.typ = "Generic" THEN gate.c[5] ELSE 0

\* Vec indexing: w[i] (0-based); out of range is a panic, tested by InRange.
At(w, i) == w[i + 1]
InRange(w, i) == i < Len(w)

\* The five-term sum of verify_generic; wire references are (row, column)
\* pairs of which the row (.0) is read.
generic_sum(gate, w) ==
    FAdd(FAdd(FAdd(FAdd(FMul(ql(gate), At(w, gate.l[1])),
                        FMul(qr(gate), At(w, gate.r[1]))),
                   FMul(qo(gate), At(w, gate.o[1]))),
              FMul(FMul(qm(gate), At(w, gate.l[1])), At(w, gate.r[1]))),
         qc(gate))

\* The rows verify_generic reads when the type test passes.
generic_rows_in_range(gate, w) ==
    InRange(w, gate.l[1]) /\ InRange(w, gate.r[1]) /\ InRange(w, gate.o[1])

\* CircuitGate::verify_generic: "true"/"false", or "panic" when a row read
\* is out of range (&& short-circuits: a non-Generic gate reads nothing).
verify_generic(gate, w) ==
    IF gate.typ # "Generic" THEN "false"
    ELSE IF ~generic_rows_in_range(gate, w) THEN "panic"
    ELSE IF generic_sum(gate, w) = 0 THEN "true" ELSE "false"

\* ------------------------------------------------------------------ index
\* Index (index.rs), built from a circuit: the selector and permutation
\* polynomials interpolate the gates' selectors and the sigma evaluations
\* over H; sid[j] = omega^j.  circ: [domain, r, o, gates, sigma, public, tau];
\* the prover's gates carry plain witness indices l, r, o.
SelectorColumn(gates, i) ==
    [j \in 1..Len(gates) |->
        CASE i = 1 -> ql(gates[j]) [] i = 2 -> qr(gates[j]) [] i = 3 -> qo(gates[j])
          [] i = 4 -> qm(gates[j]) [] OTHER -> qc(gates[j])]

MakeIndex(circ) ==
    [cs |-> [domain |-> circ.domain,
             gates  |-> circ.gates,
             sigma  |-> circ.sigma,
             sid    |-> [j \in 1..circ.domain.size |-> DomainElem(circ.domain, j - 1)],
             public |-> circ.public,
             r      |-> circ.r,
             o      |-> circ.o],
     ql |-> Interpolate(SelectorColumn(circ.gates, 1), circ.domain),
     qr |-> Interpolate(SelectorColumn(circ.gates, 2), circ.domain),
     qo |-> Interpolate(SelectorColumn(circ.gates, 3), circ.domain),
     qm |-> Interpolate(SelectorColumn(circ.gates, 4), circ.domain),
     qc |-> Interpolate(SelectorColumn(circ.gates, 5), circ.domain),
     sigma |-> [i \in 1..3 |-> Interpolate(circ.sigma[i], circ.domain)],
     urs |-> [tau |-> circ.tau]]

\* URS::commit: the commitment [p(tau)]G, written by its discrete logarithm.
Commit(urs, p) == PEval(p, urs.tau)

RECURSIVE Combine(_, _, _)
Combine(polys, v, i) ==
    IF i > Len(polys) THEN <<>>
    ELSE PAdd(polys[i], PScale(Combine(polys, v, i + 1), v))

\* URS::open: the batched opening [(f(tau) - f(x)) / (tau - x)]G of
\* f = sum_i v^i polys[i] at the point x.
Open(urs, polys, v, x) ==
    LET f == Combine(polys, v, 1)
    IN  FMul(FSub(PEval(f, urs.tau), PEval(f, x)), FInv(FSub(urs.tau, x)))

\* ----------------------------------------------------------------- prover
\* witness[gate.l], witness[gate.r], witness[gate.o] are in range at every
\* gate (prover.rs 59-61 index without a check).
WiresInRange(index, witness) ==
    \A j \in 1..Len(index.cs.gates) :
        /\ InRange(witness, index.cs.gates[j].l)
        /\ InRange(witness, index.cs.gates[j].r)
        /\ InRange(witness, index.cs.gates[j].o)

\* prover.rs 59-61: the interpolated wire columns; b and c are scaled by the
\* coset scalars cs.r and cs.o.
WireA(index, witness) ==
    Interpolate([j \in 1..Len(index.cs.gates) |-> At(witness, index.cs.gates[j].l)],
                index.cs.domain)
WireB(index, witness) ==
    Interpolate([j \in 1..Len(index.cs.gates) |->
                    FMul(index.cs.r, At(witness, index.cs.gates[j].r))], index.cs.domain)
WireC(index, witness) ==
    Interpolate([j \in 1..Len(index.cs.gates) |->
                    FMul(index.cs.o, At(witness, index.cs.gates[j].o))], index.cs.domain)

\* prover.rs 66-68, 107: p + SparsePolynomial(coeffs) * Z_H
Blind(p, coeffs, dom) ==
    PAdd(p, PMul(from_coefficients_slice(coeffs), vanishing_polynomial(dom)))

\* prover.rs 87-93: den_j for j = 1..n-1 (entry j of the result).
Denominators(index, witness, beta, gamma) ==
    [j \in 1..(index.cs.domain.size - 1) |->
        FMul(FMul(
            FAdd(FAdd(At(witness, index.cs.gates[j + 1].l), FMul(index.cs.sigma[1][j + 1], beta)), gamma),
            FAdd(FAdd(At(witness, index.cs.gates[j + 1].r), FMul(index.cs.sigma[2][j + 1], beta)), gamma)),
            FAdd(FAdd(At(witness, index.cs.gates[j + 1].o), FMul(index.cs.sigma[3][j + 1], beta)), gamma))]

\* prover.rs 96-102: num_j for j = 1..n-1 (entry j of the result).
Numerators(index, witness, beta, gamma) ==
    [j \in 1..(index.cs.domain.size - 1) |->
        FMul(FMul(
            FAdd(FAdd(At(witness, index.cs.gates[j + 1].l), FMul(index.cs.sid[j + 1], beta)), gamma),
            FAdd(FAdd(At(witness, index.cs.gates[j + 1].r),
                      FMul(FMul(index.cs.sid[j + 1], beta), index.cs.r)), gamma)),
            FAdd(FAdd(At(witness, index.cs.gates[j + 1].o),
                      FMul(FMul(index.cs.sid[j + 1], beta), index.cs.o)), gamma))]

\* prover.rs 103: for i in 1..coeffs.len(): coeffs[i] *= coeffs[i-1] * denominators[i]
\* (0-based; entry 0 is never touched).  RunningProduct(num, dinv, k) is the
\* final value of the 0-based entry k-1.
RECURSIVE RunningProduct(_, _, _)
RunningProduct(num, dinv, k) ==
    IF k = 1 THEN num[1]
    ELSE FMul(num[k], FMul(RunningProduct(num, dinv, k - 1), dinv[k]))

\* prover.rs 94-104: the evaluations of z on H that are interpolated.
ZEvals(index, witness, beta, gamma) ==
    LET num  == Numerators(index, witness, beta, gamma)
        dinv == batch_inversion(Denominators(index, witness, beta, gamma))
    IN  <<1>> \o [k \in 1..Len(num) |-> RunningProduct(num, dinv, k)]

\* prover.rs 106-107
ZPoly(index, witness, bl, beta, gamma) ==
    Blind(Interpolate(ZEvals(index, witness, beta, gamma), index.cs.domain),
          <<bl[9], bl[8], bl[7]>>, index.cs.domain)

\* prover.rs 118-119: witness[0..public] interpolated (the slice is in range
\* iff public <= witness.len()).
PublicInRange(index, witness) == index.cs.public <= Len(witness)
PublicSlice(index, witness) == SubSeq(witness, 1, index.cs.public)
PublicPoly(index, witness) == Interpolate(PublicSlice(index, witness), index.cs.domain)

\* prover.rs 123-129
T1(index, a, b, c, p) ==
    PAdd(PAdd(PAdd(PAdd(PAdd(PMul(a, PMul(b, index.qm)),
                             PMul(a, index.ql)),
                        PMul(b, index.qr)),
                   PMul(c, index.qo)),
              p),
         index.qc)

\* prover.rs 130-134
T2(index, a, b, c, z, o) ==
    PScale(PMul(PMul(PMul(
        PAdd(a, from_coefficients_slice(<<o.gamma, o.beta>>)),
        PAdd(b, from_coefficients_slice(<<o.gamma, FMul(o.beta, index.cs.r)>>))),
        PAdd(c, from_coefficients_slice(<<o.gamma, FMul(o.beta, index.cs.o)>>))),
        z), o.alpha)

\* prover.rs 139-140: z.coeffs.iter().skip(1).zip(sid.evals).map(|(z, w)| z * w)
ShiftedZ(index, z) ==
    from_coefficients_slice(
        [i \in 1..Min(Max(Len(z) - 1, 0), Len(index.cs.sid)) |-> FMul(z[i + 1], index.cs.sid[i])])

\* prover.rs 136-138: the three factors a + gamma + sigma_i of t3.
T3Factor(index, w, i, o) ==
    PAdd(PAdd(w, from_coefficients_slice(<<o.gamma>>)), index.sigma[i])

\* prover.rs 135-140
T3(index, a, b, c, z, o) ==
    PScale(PMul(PMul(PMul(T3Factor(index, a, 1, o), T3Factor(index, b, 2, o)),
                     T3Factor(index, c, 3, o)),
                ShiftedZ(index, z)), o.alpha)

\* prover.rs 141-143
T4(index, z, alpsq) ==
    PMul(PSub(z, from_coefficients_slice(<<1>>)),
         from_coefficients_slice([i \in 1..index.cs.domain.size |-> alpsq]))

\* prover.rs 123-143: the four parts of the quotient numerator.
QuotientParts(index, a, b, c, z, p, o) ==
    [t1 |-> T1(index, a, b, c, p), t2 |-> T2(index, a, b, c, z, o),
     t3 |-> T3(index, a, b, c, z, o), t4 |-> T4(index, z, FMul(o.alpha, o.alpha)),
     zshift |-> ShiftedZ(index, z)]

\* prover.rs 145: t1 + t2 - t3 + t4
QuotientNumerator(q) == PAdd(PSub(PAdd(q.t1, q.t2), q.t3), q.t4)

\* Mutant: the remainder is not looked at.
DivisionFailsNoRemainder(d) == ~d.some
\* prover.rs 145-147: no division result, or a non-zero remainder.
DivisionFails(d) == ~d.some \/ d.r # <<>>

\* prover.rs 150-152: the slices of t.coeffs; a range that ends past the
\* vector, or starts past it, panics.
SplitInRange(t, n) == 2 * n <= Len(t)
\* Mutant: the high slice starts one coefficient late.
THghOffByOne(t, n) == from_coefficients_slice(SubSeq(t, 2 * n + 2, Len(t)))
TLow(t, n)  == from_coefficients_slice(SubSeq(t, 1, n))
TMid(t, n)  == from_coefficients_slice(SubSeq(t, n + 1, 2 * n))
THgh(t, n)  == from_coefficients_slice(SubSeq(t, 2 * n + 1, Len(t)))

\* prover.rs 162-163
Zeta2(index, zeta) == FPow(zeta, index.cs.domain.size)
Zeta3(index, zeta) == FPow(Zeta2(index, zeta), index.cs.domain.size)

\* prover.rs 167-172
Evals1(index, a, b, c, z, zeta) ==
    [a |-> PEval(a, zeta), b |-> PEval(b, zeta), c |-> PEval(c, zeta),
     sigma1 |-> PEval(index.sigma[1], zeta), sigma2 |-> PEval(index.sigma[2], zeta),
     z |-> PEval(z, FMul(zeta, index.cs.domain.group_gen)), r |-> 0]

\* prover.rs 174-196
Linearization(index, z, e, o) ==
    LET r1 == PAdd(PAdd(PAdd(PAdd(PScale(index.qm, FMul(e.a, e.b)),
                                  PScale(index.ql, e.a)),
                             PScale(index.qr, e.b)),
                        PScale(index.qo, e.c)),
                   index.qc)
        r2 == PScale(z,
                FMul(FMul(FMul(
                    FAdd(FAdd(e.a, FMul(o.beta, e.z)), o.gamma),
                    FAdd(FAdd(e.b, FMul(FMul(o.beta, index.cs.r), e.z)), o.gamma)),
                    FAdd(FAdd(e.c, FMul(FMul(o.beta, index.cs.o), e.z)), o.gamma)),
                    o.alpha))
        r3 == PScale(index.sigma[3],
                FMul(FMul(
                    FAdd(FAdd(e.a, FMul(o.beta, e.sigma1)), o.gamma),
                    FAdd(FAdd(e.b, FMul(o.beta, e.sigma2)), o.gamma)),
                    FMul(FMul(o.beta, e.z), o.alpha)))
        r4 == PScale(z, FMul(o.alpha, o.alpha))
    IN  PAdd(PSub(PAdd(r1, r2), r3), r4)

\* prover.rs 215: tlow + tmid.scale(zeta2) + thgh.scale(zeta3)
CombinedT(tlow, tmid, thgh, zeta2, zeta3) ==
    PAdd(PAdd(tlow, PScale(tmid, zeta2)), PScale(thgh, zeta3))

\* ----------------------------------------------------------------- inputs
\* Domains H inside F_P with coset scalars r (k1) = 2 and o (k2) = 4:
\* H, 2*H, 4*H are pairwise disjoint for both.
Domain2 == [size |-> 2, group_gen |-> P - 1]
Domain4 == [size |-> 4, group_gen |-> 5]

\* The largest public input count of an Index.
MaxPublic == 2

NoSel == <<0, 0, 0, 0, 0>>
MulSel == <<0, 0, P - 1, 1, 0>>
EqSel == <<1, P - 1, 0, 0, 0>>
PGate(l, r, o, c) == [typ |-> "Generic", l |-> l, r |-> r, o |-> o, c |-> c]

\* The identity permutation on H, r*H, o*H.
SigmaId(dom, r, o) ==
    <<[j \in 1..dom.size |-> DomainElem(dom, j - 1)],
      [j \in 1..dom.size |-> FMul(r, DomainElem(dom, j - 1))],
      [j \in 1..dom.size |-> FMul(o, DomainElem(dom, j - 1))]>>

Circuit(dom, gates, sigma) ==
    [domain |-> dom, r |-> 2, o |-> 4, gates |-> gates, sigma |-> sigma,
     public |-> 0, tau |-> 3]

\* Two rows over six distinct variables, no constraint.
CircFree == Circuit(Domain2, <<PGate(0, 1, 2, NoSel), PGate(3, 4, 5, NoSel)>>,
                    SigmaId(Domain2, 2, 4))
\* w0 * w1 = w2 and w3 = w4.
CircMul == Circuit(Domain2, <<PGate(0, 1, 2, MulSel), PGate(3, 4, 5, EqSel)>>,
                   SigmaId(Domain2, 2, 4))
\* Both rows read variable 0 on the left wire: sigma_1 swaps the two rows.
CircCopy == Circuit(Domain2, <<PGate(0, 1, 2, NoSel), PGate(0, 3, 4, NoSel)>>,
                    [SigmaId(Domain2, 2, 4) EXCEPT ![1] = <<P - 1, 1>>])
\* Every wire of both rows is variable 0.
CircOne == Circuit(Domain2, <<PGate(0, 0, 0, NoSel), PGate(0, 0, 0, NoSel)>>,
                   SigmaId(Domain2, 2, 4))
\* Four rows: w0 * w1 = w2, then three unconstrained rows of which rows 1
\* and 2 both read variable 3 on the left wire: sigma_1 swaps them.
Circ4 == Circuit(Domain4, <<PGate(0, 1, 2, MulSel), PGate(3, 4, 5, NoSel),
                            PGate(3, 7, 8, NoSel), PGate(9, 10, 11, NoSel)>>,
                 [SigmaId(Domain4, 2, 4) EXCEPT ![1] = <<1, P - 1, 5, 8>>])

Cases ==
    { [circ |-> CircFree, witness |-> <<1, 2, 3, 4, 5, 6>>],
      [circ |-> CircFree, witness |-> <<1, 2>>],
      [circ |-> CircMul,  witness |-> <<3, 5, 2, 4, 4, 0>>],
      [circ |-> CircMul,  witness |-> <<3, 5, 1, 4, 2, 0>>],
      [circ |-> CircCopy, witness |-> <<1, 2, 3, 4, 5>>],
      [circ |-> CircOne,  witness |-> <<5>>],
      [circ |-> Circ4,    witness |-> <<3, 5, 2, 1, 2, 3, 4, 5, 6, 7, 8, 9>>],
      [circ |-> Circ4,    witness |-> <<3, 5, 1, 1, 2, 3, 4, 5, 6, 7, 8, 9>>] }

Inputs ==
    { [circ |-> [cs.circ EXCEPT !.public = pub], witness |-> cs.witness] :
        cs \in Cases, pub \in 0..MaxPublic }

\* Values E::Fr::rand(rng) returns for the nine blinders.
Blinders == { <<0, 0, 0, 0, 0, 0, 0, 0, 0>>, <<1, 1, 1, 1, 1, 1, 1, 1, 1>>,
              <<1, 2, 3, 4, 5, 6, 1, 2, 3>> }

\* Values fq_sponge.challenge() returns.
Challenges == {0, 1, 2, 10}

\* ------------------------------------------------------------------ state
VARIABLES pc, index, witness, bl, a, b, c, z, public, tparts, t, rem, tlow, tmid,
          thgh, zeta2, zeta3, r, oracles, evals, comms, fq_sponge, calls, opened, result

\* The generic gate under test: the gate, the witness it is verified against,
\* the last operation called on it and what that returned.
VARIABLES gate, gwitness, gcall, gret

gvars == <<gate, gwitness, gcall, gret>>

pvars == <<pc, index, witness, bl, a, b, c, z, public, tparts, t, rem, tlow, tmid, thgh,
          zeta2, zeta3, r, oracles, evals, comms, fq_sponge, calls, opened, result>>

vars == <<pvars, gvars>>

\* RandomOracles::zero, ProofEvaluations::zero
RandomOraclesZero == [beta |-> 0, gamma |-> 0, alpha |-> 0, zeta |-> 0, v |-> 0]
ProofEvaluationsZero == [a |-> 0, b |-> 0, c |-> 0, sigma1 |-> 0, sigma2 |-> 0, r |-> 0, z |-> 0]

Running == [kind |-> "Running", err |-> "", proof |-> <<>>]
Panic(what) == [kind |-> "Panic", err |-> what, proof |-> <<>>]
Err(e) == [kind |-> "Err", err |-> e, proof |-> <<>>]
Ok(proof) == [kind |-> "Ok", err |-> "", proof |-> proof]

\* Transcript events of the FqSponge.
Absorb(g) == [op |-> "absorb_g", g |-> g, to |-> ""]
Challenge(to, x) == [op |-> "challenge", g |-> <<x>>, to |-> to]

\* prover.rs 76-83: a fresh sponge absorbs [a_comm, b_comm, c_comm]; beta, gamma.
Round1Transcript(cm, beta, gamma) ==
    <<Absorb(cm), Challenge("beta", beta), Challenge("gamma", gamma)>>
\* Mutant: alpha is drawn before z_comm is absorbed.
Round2TranscriptSwapped(sponge, z_comm, alpha) ==
    sponge \o <<Challenge("alpha", alpha), Absorb(<<z_comm>>)>>
\* prover.rs 113-114: absorb [z_comm]; alpha.
Round2Transcript(sponge, z_comm, alpha) ==
    sponge \o <<Absorb(<<z_comm>>), Challenge("alpha", alpha)>>
\* prover.rs 160-161: absorb [tlow_comm, tmid_comm, thgh_comm]; zeta.
Round3Transcript(sponge, cm, zeta) ==
    sponge \o <<Absorb(cm), Challenge("zeta", zeta)>>
\* prover.rs 200: v.
Round5Transcript(sponge, v) == sponge \o <<Challenge("v", v)>>

\* A commit or open call and what it returned.
Call(fn, arg, ret) == [fn |-> fn, arg |-> arg, ret |-> ret]
CallErr(arg) == "Error(" \o arg \o ")"

\* The calls i..Len(names) of a round's commits, of which call `fail` (0: none)
\* returns an error and ends the round.
RECURSIVE CommitCalls(_, _, _)
CommitCalls(names, fail, i) ==
    IF i > Len(names) \/ (fail # 0 /\ i > fail) THEN <<>>
    ELSE <<Call("commit", names[i], IF i = fail THEN CallErr(names[i]) ELSE "Ok")>>
         \o CommitCalls(names, fail, i + 1)

\* The locals of create before its first statement.
ProverLocalsInit ==
    /\ bl = <<>>
    /\ a = <<>> /\ b = <<>> /\ c = <<>> /\ z = <<>> /\ public = <<>>
    /\ tparts = <<>> /\ t = <<>> /\ rem = <<>> /\ tlow = <<>> /\ tmid = <<>> /\ thgh = <<>>
    /\ zeta2 = 0 /\ zeta3 = 0 /\ r = <<>>
    /\ oracles = RandomOraclesZero
    /\ evals = ProofEvaluationsZero
    /\ comms = <<>>
    /\ fq_sponge = <<>>
    /\ calls = <<>>
    /\ opened = <<>>
    /\ result = Running

\* No gate operation has been called.
GateIdle ==
    /\ gate = create_generic(<<0, 0>>, <<0, 0>>, <<0, 0>>, 0, 0, 0, 0, 0)
    /\ gwitness = <<>>
    /\ gcall = "none"
    /\ gret = "none"

Init ==
    /\ \E in \in Inputs : index = MakeIndex(in.circ) /\ witness = in.witness
    /\ pc = "round1"
    /\ ProverLocalsInit
    /\ GateIdle

Return(res) == pc' = "done" /\ result' = res

\* prover.rs 55-83: wire polynomials, blinders, commitments, beta and gamma.
Round1 ==
    /\ pc = "round1"
    /\ UNCHANGED gvars
    /\ UNCHANGED <<index, witness, z, public, tparts, t, rem, tlow, tmid, thgh, zeta2,
                   zeta3, r, evals, opened>>
    /\ IF ~WiresInRange(index, witness)
       THEN /\ Return(Panic("witness index out of bounds"))
            /\ UNCHANGED <<bl, a, b, c, oracles, comms, fq_sponge, calls>>
       ELSE \E blv \in Blinders, fail \in 0..3 :
            LET dom == index.cs.domain
                a1 == Blind(WireA(index, witness), <<blv[2], blv[1]>>, dom)
                b1 == Blind(WireB(index, witness), <<blv[4], blv[3]>>, dom)
                c1 == Blind(WireC(index, witness), <<blv[6], blv[5]>>, dom)
                names == <<"a", "b", "c">>
                cm == <<Commit(index.urs, a1), Commit(index.urs, b1), Commit(index.urs, c1)>>
            IN  /\ bl' = blv /\ a' = a1 /\ b' = b1 /\ c' = c1
                /\ calls' = calls \o CommitCalls(names, fail, 1)
                /\ IF fail # 0
                   THEN /\ Return(Err(CallErr(names[fail])))
                        /\ comms' = SubSeq(cm, 1, fail - 1)
                        /\ UNCHANGED <<oracles, fq_sponge>>
                   ELSE \E beta \in Challenges, gamma \in Challenges :
                        /\ comms' = cm
                        /\ fq_sponge' = Round1Transcript(cm, beta, gamma)
                        /\ oracles' = [oracles EXCEPT !.beta = beta, !.gamma = gamma]
                        /\ pc' = "round2"
                        /\ UNCHANGED result

\* prover.rs 85-115: the permutation polynomial z and alpha.
Round2 ==
    /\ pc = "round2"
    /\ UNCHANGED gvars
    /\ UNCHANGED <<index, witness, bl, a, b, c, public, tparts, t, rem, tlow, tmid, thgh,
                   zeta2, zeta3, r, evals, opened>>
    /\ \E fail \in 0..1 :
       LET z1 == ZPoly(index, witness, bl, oracles.beta, oracles.gamma)
           z_comm == Commit(index.urs, z1)
       IN  /\ z' = z1
           /\ calls' = calls \o CommitCalls(<<"z">>, fail, 1)
           /\ IF fail # 0
              THEN /\ Return(Err(CallErr("z")))
                   /\ UNCHANGED <<oracles, comms, fq_sponge>>
              ELSE \E alpha \in Challenges :
                   /\ comms' = comms \o <<z_comm>>
                   /\ fq_sponge' = Round2Transcript(fq_sponge, z_comm, alpha)
                   /\ oracles' = [oracles EXCEPT !.alpha = alpha]
                   /\ pc' = "round3"
                   /\ UNCHANGED result

\* prover.rs 117-163: public input polynomial, quotient, split, zeta.
Round3 ==
    /\ pc = "round3"
    /\ UNCHANGED gvars
    /\ UNCHANGED <<index, witness, bl, a, b, c, z, r, evals, opened>>
    /\ IF ~PublicInRange(index, witness)
       THEN /\ Return(Panic("public slice out of bounds"))
            /\ UNCHANGED <<public, tparts, t, rem, tlow, tmid, thgh, zeta2, zeta3,
                           oracles, comms, fq_sponge, calls>>
       ELSE
       LET n == index.cs.domain.size
           q == QuotientParts(index, a, b, c, z, PublicPoly(index, witness), oracles)
           d == divide_by_vanishing_poly(QuotientNumerator(q), index.cs.domain)
       IN
       /\ public' = PublicSlice(index, witness)
       /\ tparts' = q
       /\ t' = IF d.some THEN d.q ELSE t
       /\ rem' = IF d.some THEN d.r ELSE rem
       /\ IF DivisionFails(d)
          THEN /\ Return(Err("PolyDivision"))
               /\ UNCHANGED <<tlow, tmid, thgh, zeta2, zeta3, oracles, comms,
                              fq_sponge, calls>>
          ELSE IF ~SplitInRange(d.q, n)
          THEN /\ Return(Panic("quotient slice out of bounds"))
               /\ UNCHANGED <<tlow, tmid, thgh, zeta2, zeta3, oracles, comms,
                              fq_sponge, calls>>
          ELSE \E fail \in 0..3 :
               LET lo == TLow(d.q, n)
                   mi == TMid(d.q, n)
                   hi == THgh(d.q, n)
                   names == <<"tlow", "tmid", "thgh">>
                   cm == <<Commit(index.urs, lo), Commit(index.urs, mi),
                           Commit(index.urs, hi)>>
               IN  /\ tlow' = lo /\ tmid' = mi /\ thgh' = hi
                   /\ calls' = calls \o CommitCalls(names, fail, 1)
                   /\ IF fail # 0
                      THEN /\ Return(Err(CallErr(names[fail])))
                           /\ comms' = comms \o SubSeq(cm, 1, fail - 1)
                           /\ UNCHANGED <<zeta2, zeta3, oracles, fq_sponge>>
                      ELSE \E zeta \in Challenges :
                           /\ comms' = comms \o cm
                           /\ fq_sponge' = Round3Transcript(fq_sponge, cm, zeta)
                           /\ oracles' = [oracles EXCEPT !.zeta = zeta]
                           /\ zeta2' = Zeta2(index, zeta)
                           /\ zeta3' = Zeta3(index, zeta)
                           /\ pc' = "round4"
                           /\ UNCHANGED result

\* prover.rs 165-197: evaluations at zeta and the linearisation polynomial.
Round4 ==
    /\ pc = "round4"
    /\ UNCHANGED gvars
    /\ LET e == Evals1(index, a, b, c, z, oracles.zeta)
           lin == Linearization(index, z, e, oracles)
       IN  /\ r' = lin
           /\ evals' = [e EXCEPT !.r = PEval(lin, oracles.zeta)]
    /\ pc' = "round5"
    /\ UNCHANGED <<index, witness, bl, a, b, c, z, public, tparts, t, rem, tlow, tmid,
                   thgh, zeta2, zeta3, oracles, comms, fq_sponge, calls, result, opened>>

\* prover.rs 199-229: v, the two openings, the proof.
Round5 ==
    /\ pc = "round5"
    /\ UNCHANGED gvars
    /\ UNCHANGED <<index, witness, bl, a, b, c, z, public, tparts, t, rem, tlow, tmid,
                   thgh, zeta2, zeta3, r, evals, comms>>
    /\ \E v \in Challenges, fail \in 0..2 :
       LET o1 == [polys |-> <<CombinedT(tlow, tmid, thgh, zeta2, zeta3), r, a, b, c,
                              index.sigma[1], index.sigma[2]>>,
                  v |-> v, point |-> oracles.zeta]
           o2 == [polys |-> <<z>>, v |-> v,
                  point |-> FMul(oracles.zeta, index.cs.domain.group_gen)]
           proof == [a_comm |-> comms[1], b_comm |-> comms[2], c_comm |-> comms[3],
                     z_comm |-> comms[4], tlow_comm |-> comms[5],
                     tmid_comm |-> comms[6], thgh_comm |-> comms[7],
                     proof1 |-> Open(index.urs, o1.polys, o1.v, o1.point),
                     proof2 |-> Open(index.urs, o2.polys, o2.v, o2.point),
                     evals |-> evals, public |-> public]
       IN  /\ oracles' = [oracles EXCEPT !.v = v]
           /\ fq_sponge' = Round5Transcript(fq_sponge, v)
           /\ opened' = IF fail = 1 THEN <<o1>> ELSE <<o1, o2>>
           /\ calls' = calls \o
                (IF fail = 1 THEN <<Call("open", "proof1", CallErr("proof1"))>>
                 ELSE <<Call("open", "proof1", "Ok"),
                        Call("open", "proof2", IF fail = 2 THEN CallErr("proof2") ELSE "Ok")>>)
           /\ Return(IF fail = 1 THEN Err(CallErr("proof1"))
                     ELSE IF fail = 2 THEN Err(CallErr("proof2"))
                     ELSE Ok(proof))

Next == Round1 \/ Round2 \/ Round3 \/ Round4 \/ Round5

Spec == Init /\ [][Next]_vars

\* ------------------------------------------------------------- gate spec
\* The largest row a wire reference of a gate under test names.
MaxRow == 1

GateCoefs == { NoSel, MulSel, EqSel, <<1, 1, 1, 1, 1>>, <<2, 3, 5, 7, 11>> }
GateWires == { <<row, col>> : row \in 0..MaxRow, col \in 0..1 }
GateWitnesses == { <<x>> : x \in {0, 1, 5} } \cup { <<x, y>> : x, y \in {0, 1, 5} }

\* A gate of any type, as the circuit builder may hand it over.
InitGate ==
    /\ \E typ \in GateType, l \in GateWires, rr \in 0..MaxRow, oo \in 0..MaxRow,
          cf \in GateCoefs :
          gate = [typ |-> typ, l |-> l, r |-> <<rr, 0>>, o |-> <<oo, 1>>, c |-> cf]
    /\ gwitness \in GateWitnesses
    /\ gcall = "none"
    /\ gret = "none"
    /\ index = <<>> /\ witness = <<>>
    /\ pc = "idle"
    /\ ProverLocalsInit

\* generic.rs 20-47
CreateGeneric ==
    /\ gcall = "none"
    /\ \E cf \in GateCoefs :
          gate' = create_generic(gate.l, gate.r, gate.o, cf[1], cf[2], cf[3], cf[4], cf[5])
    /\ gcall' = "create_generic"
    /\ gret' = "none"
    /\ UNCHANGED <<gwitness, pvars>>

\* generic.rs 49-59
VerifyGeneric ==
    /\ gcall' = "verify_generic"
    /\ gret' = verify_generic(gate, gwitness)
    /\ UNCHANGED <<gate, gwitness, pvars>>

\* generic.rs 61-65
CallQl == gcall' = "ql" /\ gret' = ql(gate) /\ UNCHANGED <<gate, gwitness, pvars>>
CallQr == gcall' = "qr" /\ gret' = qr(gate) /\ UNCHANGED <<gate, gwitness, pvars>>
CallQo == gcall' = "qo" /\ gret' = qo(gate) /\ UNCHANGED <<gate, gwitness, pvars>>
CallQm == gcall' = "qm" /\ gret' = qm(gate) /\ UNCHANGED <<gate, gwitness, pvars>>
CallQc == gcall' = "qc" /\ gret' = qc(gate) /\ UNCHANGED <<gate, gwitness, pvars>>

NextGate == CreateGeneric \/ VerifyGeneric \/ CallQl \/ CallQr \/ CallQo \/ CallQm \/ CallQc

SpecGate == InitGate /\ [][NextGate]_vars

\* ----------------------------------------------------------------- claims
Slice(s, m, k) == [i \in 1..(Min(k, Len(s)) - m + 1) |-> s[m + i - 1]]
IsPrefix(s, u) == Len(s) <= Len(u) /\ \A i \in 1..Len(s) : s[i] = u[i]
Called(fn, arg) == \E i \in 1..Len(calls) : calls[i].fn = fn /\ calls[i].arg = arg
Drawn(to) == \E i \in 1..Len(fq_sponge) : fq_sponge[i].op = "challenge" /\ fq_sponge[i].to = to
DrawCount(to) ==
    Cardinality({i \in 1..Len(fq_sponge) : fq_sponge[i].op = "challenge" /\ fq_sponge[i].to = to})
OracleNames == {"beta", "gamma", "alpha", "zeta", "v"}
OracleValue(to) ==
    CASE to = "beta" -> oracles.beta [] to = "gamma" -> oracles.gamma
      [] to = "alpha" -> oracles.alpha [] to = "zeta" -> oracles.zeta [] OTHER -> oracles.v

\* The transcript the protocol prescribes, over the commitments made and the
\* challenges held by the oracles.
FullTranscript ==
    <<Absorb(Slice(comms, 1, 3)), Challenge("beta", oracles.beta),
      Challenge("gamma", oracles.gamma),
      Absorb(Slice(comms, 4, 4)), Challenge("alpha", oracles.alpha),
      Absorb(Slice(comms, 5, 7)), Challenge("zeta", oracles.zeta),
      Challenge("v", oracles.v)>>

\* C1: the transcript of the one sponge is, at every point of every run, a
\* prefix of absorb[a,b,c]; beta; gamma; absorb[z]; alpha; absorb[tlow,tmid,
\* thgh]; zeta; v over the commitments actually made, and the whole of it when
\* a proof is returned; every absorb takes all the commitments of its round;
\* every oracle is written at most once (exactly once when a proof is
\* returned) and holds zero until it is written.
C1_TranscriptOrder ==
    /\ IsPrefix(fq_sponge, FullTranscript)
    /\ Len(fq_sponge) >= 1 => Len(comms) >= 3
    /\ Len(fq_sponge) >= 4 => Len(comms) >= 4
    /\ Len(fq_sponge) >= 6 => Len(comms) = 7
    /\ \A to \in OracleNames :
          /\ DrawCount(to) <= 1
          /\ ~Drawn(to) => OracleValue(to) = 0
          /\ result.kind = "Ok" => DrawCount(to) = 1
    /\ result.kind = "Ok" => fq_sponge = FullTranscript

\* A proof was returned over the complete transcript.
C1_Witness ==
    /\ result.kind = "Ok"
    /\ Len(fq_sponge) = 8
    /\ oracles.beta # 0 /\ oracles.alpha # 0

\* The gate equation of the claim at row j, on the gate's own selectors.
GateHolds(g, w) ==
    (g.c[1] * At(w, g.l) + g.c[2] * At(w, g.r) + g.c[3] * At(w, g.o)
       + g.c[4] * At(w, g.l) * At(w, g.r) + g.c[5]) % P = 0

\* The selector polynomials of the index interpolate the gates' selectors.
SelectorsInterpolate ==
    \A j \in 1..Len(index.cs.gates) :
        LET x == DomainElem(index.cs.domain, j - 1)
            g == index.cs.gates[j]
        IN  /\ PEval(index.ql, x) = g.c[1] /\ PEval(index.qr, x) = g.c[2]
            /\ PEval(index.qo, x) = g.c[3] /\ PEval(index.qm, x) = g.c[4]
            /\ PEval(index.qc, x) = g.c[5]

\* Positions (column, row) of the trace, the element of H, k1*H, k2*H that
\* names each, and the variable each reads.
Positions == {1, 2, 3} \X (1..index.cs.domain.size)
PosTag(pos) ==
    ((CASE pos[1] = 1 -> 1 [] pos[1] = 2 -> index.cs.r [] OTHER -> index.cs.o)
        * DomainElem(index.cs.domain, pos[2] - 1)) % P
PosVar(pos) ==
    CASE pos[1] = 1 -> index.cs.gates[pos[2]].l
      [] pos[1] = 2 -> index.cs.gates[pos[2]].r
      [] OTHER -> index.cs.gates[pos[2]].o

\* sigma is a permutation of the positions that maps every position to one
\* reading the same variable, and the sigma polynomials interpolate it.
SigmaEncodesPermutation ==
    /\ \A pos \in Positions :
          /\ \E q \in Positions :
                index.cs.sigma[pos[1]][pos[2]] = PosTag(q) /\ PosVar(q) = PosVar(pos)
          /\ PEval(index.sigma[pos[1]], DomainElem(index.cs.domain, pos[2] - 1))
                = index.cs.sigma[pos[1]][pos[2]]
    /\ \A p1, p2 \in Positions :
          index.cs.sigma[p1[1]][p1[2]] = index.cs.sigma[p2[1]][p2[2]] => p1 = p2

ValidInput ==
    /\ pc # "idle"
    /\ WiresInRange(index, witness)
    /\ index.cs.public = 0
    /\ \A j \in 1..Len(index.cs.gates) : GateHolds(index.cs.gates[j], witness)
    /\ SelectorsInterpolate
    /\ SigmaEncodesPermutation

\* C2: for a satisfying witness of a well-formed index (no public inputs),
\* once create has divided t1 + t2 - t3 + t4 by Z_H the remainder is zero and
\* create does not return PolyDivision.
C2_Completeness ==
    (ValidInput /\ tparts # <<>>) => (rem = <<>> /\ result.err # "PolyDivision")

\* C3: create never ends in anything but Ok, Err(PolyDivision) or the error of
\* a commit or open call; no index or slice goes out of range.
C3_NoAbort == result.kind \in {"Running", "Ok", "Err"}

\* C4: a missing division result or a non-zero remainder makes create return
\* PolyDivision with no commitment to a piece of t, nothing absorbed or drawn
\* after alpha, and no opening; a commit or open call that returns an error is
\* the last call made and its error is what create returns; a proof is
\* returned only after seven commitments and two openings succeeded, and it
\* carries the commitments, the evaluations and the public slice computed; no
\* proof value exists on any other path.
C4_Atomic ==
    /\ rem # <<>> => result = Err("PolyDivision")
    /\ result = Err("PolyDivision") =>
          /\ ~Called("commit", "tlow") /\ ~Called("commit", "tmid")
          /\ ~Called("commit", "thgh")
          /\ Len(fq_sponge) = 5 /\ ~Drawn("zeta") /\ ~Drawn("v")
          /\ oracles.zeta = 0 /\ oracles.v = 0
          /\ opened = <<>> /\ Len(comms) = 4
    /\ \A i \in 1..Len(calls) :
          calls[i].ret # "Ok" =>
             /\ i = Len(calls)
             /\ result = Err(calls[i].ret)
    /\ result.kind # "Ok" => result.proof = <<>>
    /\ result.kind = "Ok" =>
          /\ pc = "done"
          /\ Len(calls) = 9 /\ \A i \in 1..9 : calls[i].ret = "Ok"
          /\ {calls[i].arg : i \in 1..9}
               = {"a", "b", "c", "z", "tlow", "tmid", "thgh", "proof1", "proof2"}
          /\ Len(opened) = 2
          /\ <<result.proof.a_comm, result.proof.b_comm, result.proof.c_comm,
               result.proof.z_comm, result.proof.tlow_comm, result.proof.tmid_comm,
               result.proof.thgh_comm>> = comms
          /\ comms = <<PEval(a, index.urs.tau), PEval(b, index.urs.tau),
                       PEval(c, index.urs.tau), PEval(z, index.urs.tau),
                       PEval(tlow, index.urs.tau), PEval(tmid, index.urs.tau),
                       PEval(thgh, index.urs.tau)>>
          /\ result.proof.evals = evals
          /\ evals.a = PEval(a, oracles.zeta) /\ evals.b = PEval(b, oracles.zeta)
          /\ evals.c = PEval(c, oracles.zeta)
          /\ evals.sigma1 = PEval(index.sigma[1], oracles.zeta)
          /\ evals.sigma2 = PEval(index.sigma[2], oracles.zeta)
          /\ evals.z = PEval(z, (oracles.zeta * index.cs.domain.group_gen) % P)
          /\ evals.r = PEval(r, oracles.zeta)
          /\ result.proof.public = Slice(witness, 1, index.cs.public)

\* The division left a non-zero remainder and create returned PolyDivision.
C4_Witness == rem # <<>> /\ pc = "done" /\ result = Err("PolyDivision") /\ oracles.alpha # 0

\* num_j and den_j of the claim, j = 1..n-1.
ClaimNum(j) ==
    LET g == index.cs.gates[j + 1]
        s == index.cs.sid[j + 1]
    IN  ((At(witness, g.l) + s * oracles.beta + oracles.gamma)
         * (At(witness, g.r) + s * oracles.beta * index.cs.r + oracles.gamma)
         * (At(witness, g.o) + s * oracles.beta * index.cs.o + oracles.gamma)) % P
ClaimDen(j) ==
    LET g == index.cs.gates[j + 1]
    IN  ((At(witness, g.l) + index.cs.sigma[1][j + 1] * oracles.beta + oracles.gamma)
         * (At(witness, g.r) + index.cs.sigma[2][j + 1] * oracles.beta + oracles.gamma)
         * (At(witness, g.o) + index.cs.sigma[3][j + 1] * oracles.beta + oracles.gamma)) % P

\* C5: once z is built, z(omega^0) = 1 and, when no den_j is zero,
\* z(omega^j) * den_j = z(omega^(j-1)) * num_j for every j in 1..n-1.
C5_GrandProduct ==
    Called("commit", "z") =>
       /\ PEval(z, 1) = 1
       /\ (\A k \in 1..(index.cs.domain.size - 1) : ClaimDen(k) # 0) =>
             \A j \in 1..(index.cs.domain.size - 1) :
                (PEval(z, DomainElem(index.cs.domain, j)) * ClaimDen(j)) % P
                  = (PEval(z, DomainElem(index.cs.domain, j - 1)) * ClaimNum(j)) % P

\* C6: once zeta is drawn the two scalars are zeta^n and zeta^(2n), and the
\* first polynomial handed to open for proof1 is
\* T = tlow + zeta^n * tmid + zeta^(2n) * thgh, with T(zeta) = t(zeta).
C6_Recombination ==
    LET n == index.cs.domain.size
        zn == FPow(oracles.zeta, n)
        z2n == FPow(oracles.zeta, 2 * n)
    IN  /\ Drawn("zeta") => zeta2 = zn /\ zeta3 = z2n
        /\ opened # <<>> =>
              /\ opened[1].polys[1] = PAdd(PAdd(tlow, PScale(tmid, zn)), PScale(thgh, z2n))
              /\ PEval(opened[1].polys[1], oracles.zeta) = PEval(t, oracles.zeta)

\* C7: verify_generic on a witness covering the rows read returns true iff
\* the gate is Generic and c0*w[l.0] + c1*w[r.0] + c2*w[o.0] + c3*w[l.0]*w[r.0]
\* + c4 = 0 in F, false for any other type; each accessor returns its
\* coefficient for a Generic gate and zero otherwise.
C7_GatePredicate ==
    LET wl == gwitness[gate.l[1] + 1]
        wr == gwitness[gate.r[1] + 1]
        wo == gwitness[gate.o[1] + 1]
        covered == gate.l[1] < Len(gwitness) /\ gate.r[1] < Len(gwitness)
                   /\ gate.o[1] < Len(gwitness)
        sel(i) == IF gate.typ = "Generic" THEN gate.c[i] ELSE 0
    IN  /\ (gcall = "verify_generic" /\ gate.typ # "Generic") => gret = "false"
        /\ (gcall = "verify_generic" /\ covered) =>
              /\ gret \in {"true", "false"}
              /\ gret = "true" <=>
                    /\ gate.typ = "Generic"
                    /\ (gate.c[1] * wl + gate.c[2] * wr + gate.c[3] * wo
                          + gate.c[4] * wl * wr + gate.c[5]) % P = 0
        /\ gcall = "ql" => gret = sel(1)
        /\ gcall = "qr" => gret = sel(2)
        /\ gcall = "qo" => gret = sel(3)
        /\ gcall = "qm" => gret = sel(4)
        /\ gcall = "qc" => gret = sel(5)
        /\ gcall = "create_generic" => gate.typ = "Generic"

\* A Generic gate with a non-zero multiplication selector, read at a column
\* other than 0, was verified and holds.
C7_Witness ==
    /\ gcall = "verify_generic" /\ gret = "true"
    /\ gate.typ = "Generic" /\ gate.c[4] # 0 /\ gate.l[2] = 1

\* C8: the t3 create built is alpha * (a + beta*sigma_1 + gamma)
\* * (b + beta*sigma_2 + gamma) * (c + beta*sigma_3 + gamma) * (shifted z).
C8_T3Beta ==
    tparts # <<>> =>
       tparts.t3 =
          PScale(PMul(PMul(PMul(
              PAdd(PAdd(a, PScale(index.sigma[1], oracles.beta)), Norm(<<oracles.gamma>>)),
              PAdd(PAdd(b, PScale(index.sigma[2], oracles.beta)), Norm(<<oracles.gamma>>))),
              PAdd(PAdd(c, PScale(index.sigma[3], oracles.beta)), Norm(<<oracles.gamma>>))),
              tparts.zshift), oracles.alpha)

\* C9: the last factor of t3 takes the value z(omega * x) at every point x.
C9_ShiftedZ ==
    tparts # <<>> =>
       \A x \in F : PEval(tparts.zshift, x)
                      = PEval(z, (index.cs.domain.group_gen * x) % P)

\* The pieces laid end to end, tlow and tmid padded to n coefficients.
Padded(p, n) == [i \in 1..n |-> Coef(p, i)]
Reassembled(n) == Padded(tlow, n) \o Padded(tmid, n) \o thgh

\* C10 (as stated): after the split each of tlow, tmid, thgh has at most n
\* coefficients and together they hold every coefficient of t.
C10_ThreePiecesBelowN ==
    Called("commit", "tlow") =>
       /\ Len(tlow) <= index.cs.domain.size
       /\ Len(tmid) <= index.cs.domain.size
       /\ Len(thgh) <= index.cs.domain.size
       /\ Reassembled(index.cs.domain.size) = t

\* C10 (amended): after the split tlow and tmid have at most n coefficients,
\* thgh holds the remaining Len(t) - 2n coefficients, at most n + 6 of them,
\* and the three together hold every coefficient of t; create reaches the
\* commitment of tlow only with a zero remainder and at least 2n coefficients
\* in t, and aborts on the slice when the division succeeded with fewer.
C10_SplitShape ==
    LET n == index.cs.domain.size IN
    /\ Called("commit", "tlow") =>
          /\ rem = <<>> /\ Len(t) >= 2 * n
          /\ Len(tlow) <= n /\ Len(tmid) <= n
          /\ Len(thgh) = Len(t) - 2 * n /\ Len(thgh) <= n + 6
          /\ Reassembled(n) = t
    /\ (pc = "done" /\ tparts # <<>> /\ rem = <<>> /\ Len(t) < 2 * n) =>
          result.kind = "Panic"

\* The split was made of a quotient whose high piece has n + 6 coefficients.
C10_Witness ==
    /\ Called("commit", "tlow")
    /\ Len(thgh) = index.cs.domain.size + 6
    /\ bl[1] # 0

=============================================================================
